---- MODULE Spec2Model ----
(***************************************************************************)
(* PDF -> Markdown/EPUB/MOBI conversion pipeline of src/main.py.           *)
(*                                                                         *)
(* Texts are sequences of tokens; every token is a literal piece of        *)
(* markdown text, so a text is the concatenation of its tokens.  The      *)
(* output store ("outputs/") is a function from file names to contents.   *)
(***************************************************************************)
EXTENDS Integers, Sequences, FiniteSets, TLC

VARIABLES
    fs,      \* the output store: file name -> [kind, body]
    pc,      \* position of process_pdf_gradio: idle, drafting, cover, ...
    req,     \* arguments and locals of the current / last conversion request
    result,  \* what the last call of process_pdf_gradio gave its caller
    before,  \* the output store when the current / last request started
    artifacts, \* paths handed back by successful requests and not deleted since
    arg,     \* input of the pure function under study
    ret,     \* its outputs so far
    calls    \* how many times it has been applied

vars == <<fs, pc, req, result, before, artifacts, arg, ret, calls>>

(***************************************************************************)
(* Bounds of the model.                                                    *)
(***************************************************************************)
MaxLen == 5          \* longest text given to the text transforms
MaxFiles == 2        \* a conversion request starts with fewer files in the store
MaxStore == 3        \* files in the store given to the Output Namer
MaxRefLen == 6       \* longest text given to the Cover Extractor alone

None == "None"

(***************************************************************************)
(* Tokens.                                                                 *)
(***************************************************************************)
BANG == "!["                               \* opens an image reference
ALT == "a"                                 \* a letter of ordinary prose
PLACEHOLDER == "](img.jpeg)"               \* closes an image placeholder
DATA_JPEG == "](data:image/jpeg;base64,"   \* opens an inline jpeg payload
DATA_PNG == "](data:image/png;base64,"     \* opens an inline png payload
B64_OK == "QUJD"                           \* four base64 characters
B64_BAD == "abc"                           \* three base64 characters
CLOSE == ")"
NL == "\n"
SP == " "
PAGE == "Page"
DIGIT == "5"
OF == "of"

Max(S) == CHOOSE x \in S : \A y \in S : y <= x
Min(S) == CHOOSE x \in S : \A y \in S : x <= y

RECURSIVE SeqsUpTo(_, _)
SeqsUpTo(A, n) ==
    IF n = 0 THEN {<<>>}
    ELSE LET shorter == SeqsUpTo(A, n - 1)
         IN  shorter \cup {Append(s, a) : s \in {t \in shorter : Len(t) = n - 1}, a \in A}

\* The preferred outcome of a backtracking choice among the end positions S,
\* longest first: the result of the rest of the pattern, Rest, at the largest
\* position where the rest matches (0 stands for "no match").
Best(S, Rest(_)) ==
    LET ok == {q \in S : Rest(q) # 0}
    IN  IF ok = {} THEN 0 ELSE Rest(Max(ok))

(***************************************************************************)
(* Noise Stripper: the multiline substitution of main.py line 54.  The     *)
(* pattern is, piece by piece: line start, spaces, an optional "Page" and  *)
(* spaces, digits, an optional group (spaces, "of", spaces, digits),       *)
(* spaces, line end; every repetition is greedy and "spaces" is any        *)
(* whitespace, newlines included.  Positions are 1..Len(s)+1; a match      *)
(* from p ends at the position after its last token.                       *)
(***************************************************************************)
IsSpace(t) == t \in {SP, NL}
IsDigit(t) == t = DIGIT

\* positions where a run of whitespace started at p may stop
SpaceEnds(s, p) == {q \in p..(Len(s) + 1) : \A i \in p..(q - 1) : IsSpace(s[i])}
\* positions where a non-empty run of digits started at p may stop
DigitEnds(s, p) == {q \in (p + 1)..(Len(s) + 1) : \A i \in p..(q - 1) : IsDigit(s[i])}

AtLineStart(s, p) == p = 1 \/ s[p - 1] = NL
AtLineEnd(s, p) == p = Len(s) + 1 \/ s[p] = NL

\* spaces, line end
MatchTail(s, p) == Best(SpaceEnds(s, p), LAMBDA q : IF AtLineEnd(s, q) THEN q ELSE 0)

\* optional of-group, spaces, line end
MatchOf(s, p) ==
    LET with == Best(SpaceEnds(s, p), LAMBDA q :
                    IF q <= Len(s) /\ s[q] = OF
                    THEN Best(SpaceEnds(s, q + 1), LAMBDA r :
                             Best(DigitEnds(s, r), LAMBDA e : MatchTail(s, e)))
                    ELSE 0)
    IN  IF with # 0 THEN with ELSE MatchTail(s, p)

\* digits, optional of-group, spaces, line end
MatchNumber(s, p) == Best(DigitEnds(s, p), LAMBDA q : MatchOf(s, q))

\* optional Page and spaces, digits, optional of-group, spaces, line end
MatchPage(s, p) ==
    LET with == IF p <= Len(s) /\ s[p] = PAGE
                THEN Best(SpaceEnds(s, p + 1), LAMBDA q : MatchNumber(s, q))
                ELSE 0
    IN  IF with # 0 THEN with ELSE MatchNumber(s, p)

\* the whole pattern tried at position p: the end of the match, or 0
PageNumberMatchEnd(s, p) ==
    IF AtLineStart(s, p) THEN Best(SpaceEnds(s, p), LAMBDA q : MatchPage(s, q)) ELSE 0

\* re.sub with the empty replacement: scan left to right, drop each match,
\* resume after it
RECURSIVE StripFrom(_, _)
StripFrom(s, p) ==
    IF p > Len(s) THEN <<>>
    ELSE LET e == PageNumberMatchEnd(s, p)
         IN  IF e # 0 THEN StripFrom(s, e) ELSE <<s[p]>> \o StripFrom(s, p + 1)

\* the substitution applied to the first match only
RECURSIVE StripFirstFrom(_, _)
StripFirstFrom(s, p) ==
    IF p > Len(s) THEN <<>>
    ELSE LET e == PageNumberMatchEnd(s, p)
         IN  IF e # 0 THEN SubSeq(s, e, Len(s)) ELSE <<s[p]>> \o StripFirstFrom(s, p + 1)
StripPageNumbersOnce(s) == StripFirstFrom(s, 1)

StripPageNumbers(s) == StripFrom(s, 1)

(***************************************************************************)
(* Image Relinker (main.py lines 42-51) for a page whose images all carry  *)
(* the id "img.jpeg": every placeholder "(img.jpeg)" becomes the inline    *)
(* data reference of the image.                                            *)
(***************************************************************************)
\* "(" image_uri ")" as tokens, after the "](" of the placeholder
ImageUri(image_base64) ==
    IF image_base64 = "data:image/png;base64,QUJD"      \* startswith("data:")
    THEN <<DATA_PNG, B64_OK, CLOSE>>
    ELSE <<DATA_JPEG, image_base64, CLOSE>>

RECURSIVE RelinkImages(_, _)
RelinkImages(content, image_base64) ==
    IF content = <<>> THEN <<>>
    ELSE (IF Head(content) = PLACEHOLDER /\ image_base64 # ""
          THEN ImageUri(image_base64)
          ELSE <<Head(content)>>) \o RelinkImages(Tail(content), image_base64)

\* what ocr_pdf_to_markdown writes for the pages of one OCR response
RECURSIVE DraftOf(_)
DraftOf(pages) ==
    IF pages = <<>> THEN <<>>
    ELSE StripPageNumbers(RelinkImages(Head(pages).markdown, Head(pages).image_base64))
         \o DraftOf(Tail(pages))

(***************************************************************************)
(* The output store.                                                       *)
(***************************************************************************)
Exists(store, path) == path \in DOMAIN store
WriteFile(store, path, content) ==
    [n \in DOMAIN store \cup {path} |-> IF n = path THEN content ELSE store[n]]
RemoveFile(store, path) == [n \in DOMAIN store \ {path} |-> store[n]]
File(kind, body) == [kind |-> kind, body |-> body]   \* body: the text of a .md file
EmptyFile == File("empty", <<>>)

(***************************************************************************)
(* Output Namer (main.py lines 184-200).                                   *)
(***************************************************************************)
TargetExt(export_format) ==
    IF export_format = "Markdown" THEN ".md"
    ELSE IF export_format = "EPUB" THEN ".epub"
    ELSE ".mobi"

Suffix(counter) == IF counter > 0 THEN "_" \o ToString(counter) ELSE ""
FinalFilename(original_name, counter, target_ext) ==
    original_name \o Suffix(counter) \o target_ext

RECURSIVE FindUnique(_, _, _, _)
FindUnique(original_name, target_ext, names, counter) ==
    IF FinalFilename(original_name, counter, target_ext) \notin names
    THEN FinalFilename(original_name, counter, target_ext)
    ELSE FindUnique(original_name, target_ext, names, counter + 1)

NextAvailableNameFromOne(original_name, target_ext, names) ==
    FindUnique(original_name, target_ext, names, 1)
NextAvailableName(original_name, target_ext, names) ==
    FindUnique(original_name, target_ext, names, 0)

TempName(timestamp) == "temp_" \o timestamp \o ".md"
CoverName(timestamp, img_fmt) == "cover_" \o timestamp \o "." \o img_fmt

(***************************************************************************)
(* Cover Extractor (main.py lines 60-91).  The pattern is: "![", any       *)
(* characters but newlines (as few as possible), "](data:image/",          *)
(* letters, ";base64,", one or more characters other than ")", ")".        *)
(***************************************************************************)
IsDataOpen(t) == t \in {DATA_JPEG, DATA_PNG}
ImgFmt(t) == IF t = DATA_PNG THEN "png" ELSE "jpeg"
HasClose(t) == t \in {CLOSE, PLACEHOLDER}     \* the tokens that hold a ")"

\* the token holding the first ")" after the payload opener at j, or 0
FirstClose(s, j) ==
    LET ks == {k \in (j + 1)..Len(s) : HasClose(s[k])}
    IN  IF ks = {} THEN 0 ELSE Min(ks)

\* the payload after the opener at j is non-empty and closed: its end, or 0
PayloadEnd(s, j) ==
    LET k == FirstClose(s, j)
    IN  IF k # 0 /\ (s[k] = PLACEHOLDER \/ k > j + 1) THEN k ELSE 0

\* the openers the lazy alt text started after i can stop at
Openers(s, i) ==
    {j \in (i + 1)..Len(s) :
        /\ IsDataOpen(s[j])
        /\ \A m \in (i + 1)..(j - 1) : s[m] # NL
        /\ PayloadEnd(s, j) # 0}

MatchStarts(s) == {i \in 1..Len(s) : s[i] = BANG /\ Openers(s, i) # {}}

\* re.search: the leftmost start, the nearest opener that completes the match
ImageMatch(s) ==
    IF MatchStarts(s) = {} THEN [start |-> 0, opener |-> 0, end |-> 0]
    ELSE LET i == Min(MatchStarts(s))
             j == Min(Openers(s, i))
         IN  [start |-> i, opener |-> j, end |-> PayloadEnd(s, j)]

\* characters of the base64 alphabet in a token
B64Chars(t) ==
    CASE t = ALT -> 1
      [] t = B64_OK -> 4
      [] t = B64_BAD -> 3
      [] t = DATA_JPEG -> 20
      [] t = DATA_PNG -> 19
      [] t = PAGE -> 4
      [] t = DIGIT -> 1
      [] t = OF -> 2
      [] OTHER -> 0

RECURSIVE CountB64(_)
CountB64(s) == IF s = <<>> THEN 0 ELSE B64Chars(Head(s)) + CountB64(Tail(s))

\* base64.b64decode discards the other characters and raises unless the
\* remaining ones come in fours; "](img.jpeg" holds seven of them
Decodes(s, m) ==
    (CountB64(SubSeq(s, m.opener + 1, m.end - 1))
        + (IF s[m.end] = PLACEHOLDER THEN 7 ELSE 0)) % 4 = 0

\* str.replace(full_match, "", 1): drop the first occurrence of sub
FirstOccurrence(s, sub) ==
    Min({p \in 1..(Len(s) - Len(sub) + 1) : SubSeq(s, p, p + Len(sub) - 1) = sub})
ReplaceFirst(s, sub) ==
    LET p == FirstOccurrence(s, sub)
    IN  SubSeq(s, 1, p - 1) \o SubSeq(s, p + Len(sub), Len(s))

\* io: "ok", "open_fails" (open raises), "write_fails" (f.write raises)
ExtractFirstImageAsCover(md_content, store, timestamp, io) ==
    LET m == ImageMatch(md_content)
        full_match == SubSeq(md_content, m.start, m.end)
        cover_path == CoverName(timestamp, ImgFmt(md_content[m.opener]))
    IN  IF m.start = 0
        THEN [path |-> None, text |-> md_content, store |-> store, opened |-> None]
        ELSE IF io = "open_fails"
        THEN [path |-> None, text |-> md_content, store |-> store, opened |-> None]
        ELSE IF io = "write_fails" \/ ~Decodes(md_content, m)
        THEN [path |-> None, text |-> md_content,
              store |-> WriteFile(store, cover_path, EmptyFile), opened |-> cover_path]
        ELSE [path |-> cover_path, text |-> ReplaceFirst(md_content, full_match),
              store |-> WriteFile(store, cover_path, File("cover", <<>>)),
              opened |-> cover_path]

(***************************************************************************)
(* Inputs of the conversion requests.                                      *)
(***************************************************************************)
PdfFiles == {[stem |-> "temp_T1", ext |-> ".pdf"]}   \* an upload named like a draft
NoPdf == [stem |-> None, ext |-> None]             \* pdf_file is None
OriginalName(pdf_file) == pdf_file.stem            \* splitext(basename(pdf_file))[0]
ExportFormats == {"Markdown", "EPUB", "MOBI"}      \* the choices of the dropdown
ManualCovers == {None, "manual.png"}               \* a path outside the store
Clock == {"T1", "T2"}                              \* datetime.now(), formatted to the second

\* the pages an OCR call may return: the markdown and the base64 data of the
\* page's image "img.jpeg" ("" when the response carries none)
Page(markdown, image_base64) == [markdown |-> markdown, image_base64 |-> image_base64]
PlainPage == Page(<<ALT, NL, PAGE, SP, DIGIT>>, "")
ImagePage == Page(<<BANG, PLACEHOLDER, ALT, BANG, PLACEHOLDER, NL>>, B64_OK)
BadImagePage == Page(<<BANG, PLACEHOLDER>>, B64_BAD)
OcrResponses == {<<PlainPage>>, <<ImagePage, PlainPage>>, <<BadImagePage>>}

NoRequest ==
    [pdf_file |-> NoPdf, export_format |-> "Markdown", manual_cover |-> None,
     auto_cover |-> FALSE,
     output_path |-> None, md_output_path |-> None,
     cover_image_path |-> None, extracted_cover_temp |-> None,
     drafted |-> <<>>,       \* the draft as DRAFTING persisted it
     ran |-> FALSE,          \* extract_first_image_as_cover was called
     opened |-> None,        \* the cover path it opened for writing
     rewrote |-> FALSE,      \* the draft was rewritten after extraction
     passed |-> "not called",\* the cover the conversion backend was given
     failed |-> "no"]        \* the step that raised

Returned(artifact, message) ==
    [outcome |-> "returned", artifact |-> artifact, message |-> message]
Pending == [outcome |-> "pending", artifact |-> None, message |-> ""]

\* main.py lines 258-259
HandleExceptionReraises == [outcome |-> "raised", artifact |-> None, message |-> "Error"]
HandleException == Returned(None, "Error")

(***************************************************************************)
(* process_pdf_gradio, one action per stage.                               *)
(***************************************************************************)
unchangedPure == UNCHANGED <<arg, ret, calls>>

\* lines 177-208: the missing-file check, the Output Namer, the draft path
Start(pdf_file, export_format, manual_cover, auto_cover, timestamp) ==
    /\ pc = "idle"
    /\ Cardinality(DOMAIN fs) < MaxFiles
    /\ before' = fs
    /\ IF pdf_file = NoPdf
       THEN /\ req' = [NoRequest EXCEPT !.export_format = export_format,
                           !.manual_cover = manual_cover, !.auto_cover = auto_cover]
            /\ result' = Returned(None, "Please upload a PDF file")
            /\ pc' = "returned"
       ELSE LET output_path == NextAvailableName(OriginalName(pdf_file),
                                   TargetExt(export_format), DOMAIN fs)
            IN  /\ req' = [NoRequest EXCEPT
                           !.pdf_file = pdf_file, !.export_format = export_format,
                           !.manual_cover = manual_cover, !.auto_cover = auto_cover,
                           !.output_path = output_path,
                           !.md_output_path = IF export_format = "Markdown"
                                              THEN output_path
                                              ELSE TempName(timestamp)]
                /\ result' = Pending
                /\ pc' = "drafting"
    /\ UNCHANGED <<fs, artifacts>>
    /\ unchangedPure

\* lines 258-259: an exception raised inside the try at stage `step`, with
\* the locals r, is caught and reported to the caller
Fail(r, step) ==
    /\ req' = [r EXCEPT !.failed = step]
    /\ result' = HandleException
    /\ pc' = "returned"

\* line 211, ocr_pdf_to_markdown (lines 18-57)
Drafting(pages) ==
    /\ pc = "drafting"
    /\ fs' = WriteFile(fs, req.md_output_path, File("md", DraftOf(pages)))
    /\ req' = [req EXCEPT !.drafted = DraftOf(pages)]
    /\ pc' = "cover"
    /\ UNCHANGED <<result, before, artifacts>>
    /\ unchangedPure

\* ocr_pdf_to_markdown raises: "ocr_fails" before the draft is opened (reading
\* the PDF, the OCR call, makedirs, open), "write_fails" while writing it
DraftingFails(outcome) ==
    /\ pc = "drafting"
    /\ fs' = IF outcome = "write_fails"
             THEN WriteFile(fs, req.md_output_path, EmptyFile)
             ELSE fs
    /\ Fail(req, "drafting")
    /\ UNCHANGED <<before, artifacts>>
    /\ unchangedPure

\* the branch of lines 217-219
ResolveCoverAutoFirst(r) ==
    IF r.auto_cover THEN "auto" ELSE IF r.manual_cover # None THEN "manual" ELSE "none"
ResolveCover(r) ==
    IF r.manual_cover # None THEN "manual" ELSE IF r.auto_cover THEN "auto" ELSE "none"

\* lines 214-218 and the fall-through of 219: no extraction
CoverResolution ==
    /\ pc = "cover"
    /\ ResolveCover(req) # "auto"
    /\ req' = IF ResolveCover(req) = "manual"
              THEN [req EXCEPT !.cover_image_path = req.manual_cover]
              ELSE req
    /\ pc' = "rendering"
    /\ UNCHANGED <<fs, result, before, artifacts>>
    /\ unchangedPure

\* lines 219-231.  io: "ok", or the file operation of the extractor that raises
AutoCover(timestamp, io) ==
    /\ pc = "cover"
    /\ ResolveCover(req) = "auto"
    /\ LET x == ExtractFirstImageAsCover(fs[req.md_output_path].body, fs, timestamp, io)
           r == [req EXCEPT !.ran = TRUE, !.opened = x.opened]
       IN  IF x.path # None
           THEN /\ req' = [r EXCEPT !.cover_image_path = x.path,
                               !.extracted_cover_temp = x.path,
                               !.rewrote = TRUE]
                /\ fs' = WriteFile(x.store, req.md_output_path, File("md", x.text))
           ELSE /\ req' = r
                /\ fs' = x.store
    /\ pc' = "rendering"
    /\ UNCHANGED <<result, before, artifacts>>
    /\ unchangedPure

\* lines 221-222 or 230-231 raise: "read_fails" on reading the draft,
\* "rewrite_fails" on writing it back after a successful extraction
AutoCoverFails(timestamp, io) ==
    /\ pc = "cover"
    /\ ResolveCover(req) = "auto"
    /\ LET x == ExtractFirstImageAsCover(fs[req.md_output_path].body, fs, timestamp, "ok")
       IN  IF io = "read_fails"
           THEN /\ fs' = fs
                /\ Fail(req, "cover")
           ELSE /\ x.path # None
                /\ fs' = WriteFile(x.store, req.md_output_path, EmptyFile)
                /\ Fail([req EXCEPT !.ran = TRUE, !.opened = x.opened,
                             !.cover_image_path = x.path,
                             !.extracted_cover_temp = x.path], "cover")
    /\ UNCHANGED <<before, artifacts>>
    /\ unchangedPure

\* markdown_to_epub / markdown_to_mobi (lines 94-117): the cover is handed to
\* pandoc only when the path exists; a manual cover lives outside the store
PathExists(store, path) == path \in (ManualCovers \ {None}) \/ Exists(store, path)
CoverArg(store, cover_image_path) ==
    IF cover_image_path # None /\ PathExists(store, cover_image_path)
    THEN cover_image_path ELSE "no cover"
MarkdownToEpub(store, md_path, output_epub_path) ==
    WriteFile(store, output_epub_path, File("epub", <<>>))
MarkdownToMobi(store, md_path, output_mobi_path) ==
    WriteFile(store, output_mobi_path, File("mobi", <<>>))

\* lines 234-242: a Markdown request returns the draft itself
ReturnMarkdown ==
    /\ pc = "rendering"
    /\ req.export_format = "Markdown"
    /\ result' = Returned(req.output_path, "Conversion completed")
    /\ artifacts' = artifacts \cup {req.output_path}
    /\ pc' = "returned"
    /\ UNCHANGED <<fs, req, before>>
    /\ unchangedPure

\* lines 243-244 and 250-251: the conversion backend writes the output
Rendering ==
    /\ pc = "rendering"
    /\ req.export_format # "Markdown"
    /\ fs' = IF req.export_format = "EPUB"
             THEN MarkdownToEpub(fs, req.md_output_path, req.output_path)
             ELSE MarkdownToMobi(fs, req.md_output_path, req.output_path)
    /\ req' = [req EXCEPT !.passed = CoverArg(fs, req.cover_image_path)]
    /\ pc' = "cleanup"
    /\ UNCHANGED <<result, before, artifacts>>
    /\ unchangedPure

\* the conversion backend raises (pandoc missing, or failing)
RenderingFails ==
    /\ pc = "rendering"
    /\ req.export_format # "Markdown"
    /\ Fail(req, "rendering")
    /\ UNCHANGED <<fs, before, artifacts>>
    /\ unchangedPure

RemoveIfExists(store, path) ==
    IF path # None /\ Exists(store, path) THEN RemoveFile(store, path) ELSE store

\* lines 245-249 and 252-256
Cleanup ==
    /\ pc = "cleanup"
    /\ fs' = RemoveIfExists(RemoveIfExists(fs, req.md_output_path),
                            req.extracted_cover_temp)
    /\ result' = Returned(req.output_path, "Conversion completed")
    /\ artifacts' = artifacts \cup {req.output_path}
    /\ pc' = "returned"
    /\ UNCHANGED <<req, before>>
    /\ unchangedPure

\* an os.remove of the cleanup raises: "md_fails" the first, "cover_fails"
\* the second
CleanupFails(rm) ==
    /\ pc = "cleanup"
    /\ LET afterMd == RemoveIfExists(fs, req.md_output_path)
       IN  IF rm = "md_fails"
           THEN /\ afterMd # fs
                /\ fs' = fs
           ELSE /\ RemoveIfExists(afterMd, req.extracted_cover_temp) # afterMd
                /\ fs' = afterMd
    /\ Fail(req, "cleanup")
    /\ UNCHANGED <<before, artifacts>>
    /\ unchangedPure

\* convert_btn.click (lines 304-308): the front-end shows the pair the handler
\* returned; the handler's locals are gone
ShowResult ==
    /\ pc = "returned"
    /\ result.outcome = "returned"
    /\ pc' = "idle"
    /\ req' = NoRequest
    /\ result' = Pending
    /\ before' = fs
    /\ UNCHANGED <<fs, artifacts>>
    /\ unchangedPure

\* delete_output_file (lines 136-151) on an entry of the listing, between
\* conversion requests
DeleteOutputFile(file_name) ==
    /\ pc = "idle"
    /\ Exists(fs, file_name)
    /\ fs' = RemoveFile(fs, file_name)
    /\ artifacts' = artifacts \ {file_name}
    /\ before' = fs'
    /\ UNCHANGED <<pc, req, result>>
    /\ unchangedPure

NoArg == [text |-> <<>>]
EmptyStore == [n \in {} |-> EmptyFile]

Init ==
    /\ fs = EmptyStore
    /\ pc = "idle"
    /\ req = NoRequest
    /\ result = Pending
    /\ before = EmptyStore
    /\ artifacts = {}
    /\ arg = NoArg
    /\ ret = <<>>
    /\ calls = 0

Next ==
    \/ \E pdf_file \in PdfFiles \cup {NoPdf}, export_format \in ExportFormats,
          manual_cover \in ManualCovers, auto_cover \in BOOLEAN, timestamp \in Clock :
          Start(pdf_file, export_format, manual_cover, auto_cover, timestamp)
    \/ \E pages \in OcrResponses : Drafting(pages)
    \/ \E outcome \in {"ocr_fails", "write_fails"} : DraftingFails(outcome)
    \/ CoverResolution
    \/ \E timestamp \in Clock, io \in {"ok", "open_fails", "write_fails"} :
          AutoCover(timestamp, io)
    \/ \E timestamp \in Clock, io \in {"read_fails", "rewrite_fails"} :
          AutoCoverFails(timestamp, io)
    \/ ReturnMarkdown
    \/ Rendering
    \/ RenderingFails
    \/ Cleanup
    \/ \E rm \in {"md_fails", "cover_fails"} : CleanupFails(rm)
    \/ ShowResult
    \/ \E file_name \in DOMAIN fs : DeleteOutputFile(file_name)

Spec == Init /\ [][Next]_vars

(***************************************************************************)
(* The Output Namer alone: any store of at most MaxStore names.            *)
(***************************************************************************)
orchestratorAtRest ==
    /\ fs = EmptyStore
    /\ pc = "idle"
    /\ req = NoRequest
    /\ result = Pending
    /\ before = EmptyStore
    /\ artifacts = {}
unchangedOrchestrator == UNCHANGED <<fs, pc, req, result, before, artifacts>>

NamerBases == {"report", "report_1"}
NamerExts == {".epub", ".md"}
NamerNames == {FinalFilename(b, k, e) : b \in NamerBases, k \in 0..2, e \in NamerExts}

InitNamer ==
    /\ orchestratorAtRest
    /\ arg \in [original_name : NamerBases, target_ext : NamerExts,
                names : {S \in SUBSET NamerNames : Cardinality(S) <= MaxStore}]
    /\ ret = <<>>
    /\ calls = 0

CallNamer ==
    /\ calls < 2
    /\ ret' = Append(ret, NextAvailableName(arg.original_name, arg.target_ext, arg.names))
    /\ calls' = calls + 1
    /\ UNCHANGED arg
    /\ unchangedOrchestrator

SpecNamer == InitNamer /\ [][CallNamer]_vars

(***************************************************************************)
(* The Noise Stripper alone: any text of at most MaxLen tokens, stripped   *)
(* and stripped again.                                                     *)
(***************************************************************************)
StripTokens == {PAGE, DIGIT, OF, SP, NL, ALT}

InitStrip ==
    /\ orchestratorAtRest
    /\ arg \in [text : SeqsUpTo(StripTokens, MaxLen)]
    /\ ret = <<>>
    /\ calls = 0

ApplyStrip ==
    /\ calls < 2
    /\ ret' = Append(ret, StripPageNumbers(IF calls = 0 THEN arg.text ELSE ret[calls]))
    /\ calls' = calls + 1
    /\ UNCHANGED arg
    /\ unchangedOrchestrator

SpecStrip == InitStrip /\ [][ApplyStrip]_vars

(***************************************************************************)
(* The Cover Extractor alone: any text of at most MaxRefLen tokens, an     *)
(* empty store.                                                            *)
(***************************************************************************)
RefTokens == {BANG, PLACEHOLDER, DATA_PNG, B64_OK, CLOSE, NL}

InitExtract ==
    /\ orchestratorAtRest
    /\ arg \in [text : SeqsUpTo(RefTokens, MaxRefLen), io : {"ok", "write_fails"}]
    /\ ret = <<>>
    /\ calls = 0

CallExtract ==
    /\ calls = 0
    /\ ret' = <<ExtractFirstImageAsCover(arg.text, EmptyStore, "T1", arg.io)>>
    /\ calls' = 1
    /\ UNCHANGED arg
    /\ unchangedOrchestrator

SpecExtract == InitExtract /\ [][CallExtract]_vars

(***************************************************************************)
(* Claims.                                                                 *)
(***************************************************************************)
SameExceptAdded(old, new, path) ==
    /\ path \notin DOMAIN old
    /\ DOMAIN new = DOMAIN old \cup {path}
    /\ \A n \in DOMAIN old : new[n] = old[n]

\* C1: process_pdf_gradio never lets an exception escape: whatever step
\* fails, its caller gets a pair, and the pair is (none, message) whenever
\* the request failed or no PDF was given.
C1_AlwaysReturnsPair ==
    /\ result.outcome # "raised"
    /\ pc = "returned" =>
          /\ result.outcome = "returned"
          /\ result.message # ""
          /\ (req.failed # "no" \/ req.pdf_file = NoPdf) => result.artifact = None
          /\ (req.failed = "no" /\ req.pdf_file # NoPdf) => result.artifact = req.output_path

C1_Witness ==
    /\ pc = "returned"
    /\ req.failed = "rendering"
    /\ req.export_format = "MOBI"
    /\ result = Returned(None, "Error")

\* C2: when the conversion backend fails during RENDERING, the request's
\* temporary draft and the cover it auto-extracted are gone from the store
\* by the time (none, message) is returned.
C2_CleanupOnBackendFailure ==
    (pc = "returned" /\ req.failed = "rendering") =>
        /\ ~Exists(fs, req.md_output_path)
        /\ req.extracted_cover_temp # None => ~Exists(fs, req.extracted_cover_temp)

\* C3: a successful EPUB/MOBI request (a cover auto-extracted, or no cover
\* at all) changes the store by exactly one added file, the final artifact.
C3_OnlyArtifactAdded ==
    ( /\ pc = "returned"
      /\ req.export_format # "Markdown"
      /\ result.artifact # None
      /\ req.manual_cover = None
      /\ req.extracted_cover_temp # None \/ req.opened = None )
    => SameExceptAdded(before, fs, req.output_path)

\* C4: no conversion request overwrites or removes a final artifact that an
\* earlier request left in the store.
C4_ArtifactsNeverClobbered ==
    \A n \in artifacts \cap DOMAIN before : Exists(fs, n) /\ fs[n] = before[n]

\* C5: the Output Namer returns "<base><ext>" when that name is free, else
\* "<base>_k<ext>" for the least k >= 1 whose name is free; the name is not
\* in the store; a repeated call returns the same name; the store
\* {report.epub, report_1.epub} gives report_2.epub.
NumberedName(a, k) == a.original_name \o "_" \o ToString(k) \o a.target_ext
ExpectedName(a) ==
    IF a.original_name \o a.target_ext \notin a.names
    THEN a.original_name \o a.target_ext
    ELSE NumberedName(a, Min({k \in 1..(Cardinality(a.names) + 1) :
                                  NumberedName(a, k) \notin a.names}))

C5_OutputNamer ==
    /\ calls >= 1 => /\ ret[1] = ExpectedName(arg)
                     /\ ret[1] \notin arg.names
    /\ calls = 2 => ret[2] = ret[1]
    /\ ( /\ calls >= 1
         /\ arg.original_name = "report" /\ arg.target_ext = ".epub"
         /\ arg.names = {"report.epub", "report_1.epub"} ) => ret[1] = "report_2.epub"

C5_Witness ==
    /\ calls = 2
    /\ arg.original_name = "report" /\ arg.target_ext = ".epub"
    /\ arg.names = {"report.epub", "report_1.epub"}
    /\ ret = <<"report_2.epub", "report_2.epub">>

\* C6: the Cover Extractor runs, and the draft is rewritten, only when no
\* manual cover was supplied and auto-cover is requested; with a manual
\* cover the backend receives that path and the draft is as DRAFTING left
\* it; with neither option nothing is extracted, the draft is as DRAFTING
\* left it, and a Markdown request adds exactly one .md file to the store.
MdNames == {FinalFilename(OriginalName(f), k, ".md") : f \in PdfFiles, k \in 0..(MaxFiles + 3)}

C6_CoverPrecedence ==
    /\ (req.ran \/ req.rewrote \/ req.opened # None \/ req.extracted_cover_temp # None)
          => (req.manual_cover = None /\ req.auto_cover)
    /\ (pc \in {"rendering", "cleanup"} /\ req.manual_cover # None) =>
          /\ req.cover_image_path = req.manual_cover
          /\ fs[req.md_output_path].body = req.drafted
          /\ pc = "cleanup" => req.passed = req.manual_cover
    /\ (pc \in {"rendering", "cleanup"} /\ req.manual_cover = None /\ ~req.auto_cover) =>
          /\ req.cover_image_path = None
          /\ fs[req.md_output_path].body = req.drafted
          /\ pc = "cleanup" => req.passed = "no cover"
    /\ ( /\ pc = "returned" /\ result.artifact # None
         /\ req.export_format = "Markdown"
         /\ req.manual_cover = None /\ ~req.auto_cover ) =>
          /\ SameExceptAdded(before, fs, req.output_path)
          /\ req.output_path \in MdNames
          /\ fs[req.output_path] = File("md", req.drafted)

C6_Witness ==
    /\ pc = "cleanup"
    /\ req.manual_cover = "manual.png" /\ req.auto_cover
    /\ req.passed = "manual.png"
    /\ ImageMatch(req.drafted).start # 0
    /\ fs[req.md_output_path].body = req.drafted

\* C7: when the draft holds an image reference but decoding or writing the
\* cover fails, the draft is not rewritten, the backend gets no cover, and
\* the failed attempt leaves no empty or partial cover file in the store.
C7_FailedExtractionLeavesNothing ==
    ( /\ pc = "rendering"
      /\ req.ran
      /\ ImageMatch(req.drafted).start # 0
      /\ req.extracted_cover_temp = None )
    => /\ fs[req.md_output_path].body = req.drafted
       /\ req.cover_image_path = None
       /\ \A n \in DOMAIN fs \ {req.md_output_path} :
             n \in DOMAIN before /\ fs[n] = before[n]

\* C8: when the text holds an inline base64 image reference and a cover is
\* returned, the returned text is the input without its first (leftmost)
\* image reference, everything else kept in order; a text without any inline
\* payload comes back unchanged with no cover.
PlainTokens == {ALT, B64_OK, B64_BAD, SP, PAGE, DIGIT, OF}
\* s[i..k] is "![" alt "](data:image/<fmt>;base64," payload ")" with a plain
\* alt text and a plain, non-empty payload
IsImageReference(s, i, k) ==
    /\ s[i] = BANG
    /\ s[k] = CLOSE
    /\ \E j \in (i + 1)..(k - 2) :
          /\ IsDataOpen(s[j])
          /\ \A m \in ((i + 1)..(j - 1)) \cup ((j + 1)..(k - 1)) : s[m] \in PlainTokens
ImageReferences(s) ==
    {ik \in (1..Len(s)) \X (1..Len(s)) : IsImageReference(s, ik[1], ik[2])}
FirstImageReference(s) ==
    CHOOSE ik \in ImageReferences(s) : \A o \in ImageReferences(s) : ik[1] <= o[1]

C8_FirstReferenceRemoved ==
    calls = 1 =>
        /\ (ImageReferences(arg.text) # {} /\ ret[1].path # None) =>
              LET ik == FirstImageReference(arg.text)
              IN  ret[1].text = SubSeq(arg.text, 1, ik[1] - 1)
                                  \o SubSeq(arg.text, ik[2] + 1, Len(arg.text))
        /\ (\A i \in 1..Len(arg.text) : ~IsDataOpen(arg.text[i])) =>
              (ret[1].path = None /\ ret[1].text = arg.text)

\* C9: the path the Cover Extractor writes never exists in the store before
\* the call, whatever earlier requests left there and whatever the clock
\* reads.
C9_CoverPathIsNew ==
    req.opened # None => ~Exists(before, req.opened)

\* C10: the Noise Stripper is idempotent, and its output has no line that is
\* only a page number or a "Page N of M" pattern.
RECURSIVE TrimLeft(_)
TrimLeft(l) == IF l # <<>> /\ Head(l) = SP THEN TrimLeft(Tail(l)) ELSE l
RECURSIVE TrimRight(_)
TrimRight(l) ==
    IF l # <<>> /\ l[Len(l)] = SP THEN TrimRight(SubSeq(l, 1, Len(l) - 1)) ELSE l
Trim(l) == TrimLeft(TrimRight(l))
IsNumber(l) == l # <<>> /\ \A i \in 1..Len(l) : l[i] = DIGIT
IsNumberOfNumber(l) ==
    \/ IsNumber(l)
    \/ \E i \in 1..Len(l) :
          /\ l[i] = OF
          /\ IsNumber(Trim(SubSeq(l, 1, i - 1)))
          /\ IsNumber(Trim(SubSeq(l, i + 1, Len(l))))
IsPageNumberLine(l) ==
    \/ IsNumberOfNumber(Trim(l))
    \/ Trim(l) # <<>> /\ Head(Trim(l)) = PAGE /\ IsNumberOfNumber(Trim(Tail(Trim(l))))
\* the lines of a text: the maximal runs s[a..b] without a newline
TextLines(s) ==
    {SubSeq(s, x[1], x[2]) :
        x \in {y \in (1..(Len(s) + 1)) \X (0..Len(s)) :
                  /\ y[1] <= y[2] + 1
                  /\ \A i \in y[1]..y[2] : s[i] # NL
                  /\ (y[1] = 1 \/ s[y[1] - 1] = NL)
                  /\ (y[2] = Len(s) \/ s[y[2] + 1] = NL)}}

====
